---- MODULE Spec2Model ----
(***************************************************************************)
(* A state-machine model of the Rainbow DQN Agent                          *)
(* (src/algorithms/rainbow/agent.py): construction, action selection, the  *)
(* learning step with its distributional N-step Bellman projection, the    *)
(* target-network synchronisation and the mode switches.                   *)
(*                                                                         *)
(* Real numbers are exact rationals.  A probability is an integer number   *)
(* of units, PTotal(atoms) units making 1.  A return is an integer number  *)
(* of 1/RetDen.  The continuous index b of a source atom is the fraction   *)
(* bNum / BDen(args).  Projected mass is kept in units of                  *)
(* 1 / (BDen(args) * PTotal(atoms)).                                       *)
(***************************************************************************)
EXTENDS Integers, Sequences, FiniteSets, TLC

\* ------------------------------------------------------------------ bounds

MaxAtoms == 3          \* args.num_atoms ranges over 1..MaxAtoms
MaxN == 2              \* args.multi_step ranges over 1..MaxN
MaxRet == 5            \* returns range over -MaxRet..MaxRet, in 1/RetDen
NumActions == 2        \* env.action_space.n
RetDen == 2            \* returns are multiples of 1/RetDen

VRange == {-1, 0, 1}                    \* args.V_min, args.V_max
Discounts == {<<1, 2>>, <<1, 1>>}       \* args.discount as <<num, den>>
States == {0, 1}                        \* observations
Noise == {1, 2}                         \* realisations of the noisy layers
NoNoise == 0                            \* noisy layers evaluated at their mean

Actions == 0 .. (NumActions - 1)

\* Network parameters: ordinary parameter vectors, and one that holds a NaN.
NaNParam == -1
FiniteParams == {0, 1}
Params == FiniteParams \cup {NaNParam}
FreshOnline == 0       \* the random initialisation of the online network
FreshTarget == 1       \* the random initialisation of the target network
NoFile == -2           \* args.model names no file

\* ------------------------------------------------------------ arithmetic

Min(a, b) == IF a < b THEN a ELSE b
Max(a, b) == IF a > b THEN a ELSE b

RECURSIVE Pow(_, _)
Pow(x, k) == IF k = 0 THEN 1 ELSE x * Pow(x, k - 1)

\* floor and ceil of the fraction num / den, den > 0
Floor(num, den) == num \div den
Ceil(num, den) == -((-num) \div den)

RECURSIVE SumTo(_, _)
\* f[0] + ... + f[k]
SumTo(f, k) == IF k < 0 THEN 0 ELSE f[k] + SumTo(f, k - 1)

\* --------------------------------------------------------- support grid

\* faulty variant: a support grid that starts at 0
SupportNumFromZero(args, i) == i * (args.V_max - args.V_min)

\* self.support[i] = torch.linspace(V_min, V_max, atoms)[i], as the numerator
\* of a fraction over (atoms - 1)
SupportNum(args, i) ==
    args.V_min * (args.num_atoms - 1) + i * (args.V_max - args.V_min)

\* self.delta_z = (V_max - V_min) / (atoms - 1): Python raises
\* ZeroDivisionError when atoms = 1
DeltaZRaises(args) == args.num_atoms - 1 = 0

\* self.discount ** self.n as a fraction GammaNum / GammaDen
GammaNum(args) == Pow(args.discount[1], args.multi_step)
GammaDen(args) == Pow(args.discount[2], args.multi_step)

\* ------------------------------------------- networks (RainbowDQN, noisy)

\* Probability units that make 1 for a distribution over N atoms.
PTotal(N) == N + 2

IsNaN(theta) == theta = NaNParam

\* The noise a forward pass uses: the sampled one in training mode, the mean
\* weights in evaluation mode.
EffNoise(xi, training) == IF training THEN xi ELSE NoNoise

Peak1(theta, s, a, N) == (((theta + a) % 2) + s) % N
Peak2(xi, a, N) == (xi + a) % N

\* net(state): for each action a categorical distribution over the atoms,
\* strictly positive (a softmax), summing to PTotal(N) units.
NetProbs(theta, xi, s, N) ==
    [a \in Actions |->
        [i \in 0 .. (N - 1) |->
            1 + (IF i = Peak1(theta, s, a, N) THEN 1 ELSE 0)
              + (IF i = Peak2(xi, a, N) THEN 1 ELSE 0)]]

\* net(state, log=True): minus the log-probabilities, as a decreasing
\* function of the probability.
NetNegLog(theta, xi, s, N) ==
    [a \in Actions |->
        [i \in 0 .. (N - 1) |-> PTotal(N) - NetProbs(theta, xi, s, N)[a][i]]]

\* (probs * self.support).sum(2): expected value of each action, as a
\* numerator over (atoms - 1) * PTotal(atoms)
QNum(args, probs) ==
    [a \in Actions |->
        SumTo([i \in 0 .. (args.num_atoms - 1) |->
                  SupportNum(args, i) * probs[a][i]], args.num_atoms - 1)]

\* faulty variant: .argmin(1)
ArgMin(q) ==
    CHOOSE a \in DOMAIN q :
        /\ \A a2 \in DOMAIN q : q[a2] >= q[a]
        /\ \A a2 \in DOMAIN q : a2 < a => q[a2] > q[a]

\* .argmax(1): the first index holding the maximum
ArgMax(q) ==
    CHOOSE a \in DOMAIN q :
        /\ \A a2 \in DOMAIN q : q[a2] <= q[a]
        /\ \A a2 \in DOMAIN q : a2 < a => q[a2] < q[a]

\* faulty variant: .min(1)[0]
MinOf(q) == q[ArgMin(q)]

\* .max(1)[0]
MaxOf(q) == q[ArgMax(q)]

\* The greedy action of a network on a state; a network holding NaN yields
\* NaN values, whose argmax is index 0.
GreedyAction(args, theta, xi, s) ==
    IF IsNaN(theta) THEN 0
    ELSE ArgMax(QNum(args, NetProbs(theta, xi, s, args.num_atoms)))

\* ------------------------------------------------- replay memory (sample)

\* The transitions the environment loop appends to the replay memory, in
\* order; ret is the n-step return in units of 1/RetDen.
Stored ==
    << [state |-> 0, action |-> 0, ret |-> -MaxRet, next |-> 1, nonterminal |-> 1, weight |-> 1],
       [state |-> 1, action |-> 1, ret |-> 1,       next |-> 0, nonterminal |-> 1, weight |-> 2],
       [state |-> 0, action |-> 1, ret |-> 0,       next |-> 0, nonterminal |-> 0, weight |-> 3] >>

MemCapacity == Len(Stored)

\* mem.sample(batch_size) fails when fewer transitions are held than asked for
SampleFails(size, batch_size) == size < batch_size

BatchOf(idxs) == [j \in DOMAIN idxs |-> Stored[idxs[j]]]

\* ----------------------------------------- projection (Agent.learn 123-155)

\* Denominator of Tz: returns over RetDen, discount ** n over GammaDen,
\* support over (atoms - 1).
TzDen(a) == RetDen * GammaDen(a) * (a.num_atoms - 1)

\* faulty variant: Tz = returns + (discount ** n) * support, the mask lost
TzNumNoMask(a, ret, nonterminal, i) ==
    ret * GammaDen(a) * (a.num_atoms - 1) + GammaNum(a) * SupportNum(a, i) * RetDen

\* Tz = returns + nonterminals * (discount ** n) * support   (numerator)
TzNum(a, ret, nonterminal, i) ==
    ret * GammaDen(a) * (a.num_atoms - 1)
      + nonterminal * GammaNum(a) * SupportNum(a, i) * RetDen

\* faulty variant: the clamp loses its lower bound
ClampMaxOnly(x, lo, hi) == Min(x, hi)

\* x.clamp(min=lo, max=hi): min(max(x, lo), hi), which is hi when lo > hi
Clamp(x, lo, hi) == Min(Max(x, lo), hi)

\* Tz.clamp(min=self.Vmin, max=self.Vmax)   (numerator over TzDen)
TzClamped(a, ret, nonterminal, i) ==
    Clamp(TzNum(a, ret, nonterminal, i), a.V_min * TzDen(a), a.V_max * TzDen(a))

\* b = (Tz - Vmin) / delta_z is the fraction BNum / BDen, the denominator
\* made positive.  BDen = 0 (delta_z = 0) makes every b a NaN.
BSign(a) == IF a.V_max < a.V_min THEN -1 ELSE 1
BDen(a) == BSign(a) * TzDen(a) * (a.V_max - a.V_min)
BNum(a, ret, nonterminal, i) ==
    BSign(a) * (TzClamped(a, ret, nonterminal, i) - a.V_min * TzDen(a))
             * (a.num_atoms - 1)
BIsNaN(a) == BDen(a) = 0

BNumRows(a, returns, nonterminals) ==
    [j \in DOMAIN returns |-> [i \in 0 .. (a.num_atoms - 1) |->
        BNum(a, returns[j], nonterminals[j], i)]]

\* What .to(torch.int64) yields for a NaN is undefined: the smallest integer
\* on some builds, 0 on others.
NaNCasts == {"min", "zero"}
CastMin == -1073741824
NaNAsInt(cast) == IF cast = "min" THEN CastMin ELSE 0

\* b.floor().to(torch.int64), b.ceil().to(torch.int64)
FloorB(a, bn, cast) == IF BIsNaN(a) THEN NaNAsInt(cast) ELSE Floor(bn, BDen(a))
CeilB(a, bn, cast) == IF BIsNaN(a) THEN NaNAsInt(cast) ELSE Ceil(bn, BDen(a))

\* faulty variant: line 134 missing, l stays at floor(b)
LowerAdjustNone(l, u) == l

\* l[(u > 0) * (l == u)] -= 1
LowerAdjust(l, u) == IF u > 0 /\ l = u THEN l - 1 ELSE l
\* u[(l < (self.atoms - 1)) * (l == u)] += 1, on the l already adjusted
UpperAdjust(l, u, atoms) == IF l < atoms - 1 /\ l = u THEN u + 1 ELSE u

\* l and u after lines 134-135, row-relative
LowerRows(a, bn, cast) ==
    [j \in DOMAIN bn |-> [i \in DOMAIN bn[j] |->
        LowerAdjust(FloorB(a, bn[j][i], cast), CeilB(a, bn[j][i], cast))]]
UpperRows(a, bn, l, cast) ==
    [j \in DOMAIN bn |-> [i \in DOMAIN bn[j] |->
        UpperAdjust(l[j][i], CeilB(a, bn[j][i], cast), a.num_atoms)]]

\* faulty variant: pns_a * b - l.float(), the parentheses lost
MassToUpperNoParens(p, l, bn, bd) == p * bn - l * bd

\* pns_a * (u.float() - b) and pns_a * (b - l.float()), in units of
\* 1 / (BDen * PTotal)
MassToLower(p, u, bn, bd) == p * (u * bd - bn)
MassToUpper(p, l, bn, bd) == p * (bn - l * bd)

\* offset[j] = torch.linspace(0, (batch_size - 1) * atoms, batch_size)[j]
Offset(j, atoms) == j * atoms

FlatDomain(a) == 0 .. (a.batch_size * a.num_atoms - 1)

\* rows.view(-1)
Flat(rows, a) ==
    [q \in FlatDomain(a) |-> rows[q \div a.num_atoms][q % a.num_atoms]]

\* (rows + offset).view(-1)
FlatWithOffset(rows, a) ==
    [q \in FlatDomain(a) |->
        rows[q \div a.num_atoms][q % a.num_atoms] + Offset(q \div a.num_atoms, a.num_atoms)]

\* flat.view(batch_size, atoms)
Rows(flat, a) ==
    [j \in 0 .. (a.batch_size - 1) |->
        [i \in 0 .. (a.num_atoms - 1) |-> flat[Offset(j, a.num_atoms) + i]]]

RECURSIVE AddAt(_, _, _, _)
\* the sum of src[q] over the positions q <= last with index[q] = k
AddAt(index, src, k, last) ==
    IF last < 0 THEN 0
    ELSE (IF index[last] = k THEN src[last] ELSE 0) + AddAt(index, src, k, last - 1)

\* faulty variant: t[index] = src, a later source overwriting an earlier one
IndexPut(t, index, src) ==
    [k \in DOMAIN t |->
        IF \E q \in DOMAIN index : index[q] = k
        THEN src[CHOOSE q \in DOMAIN index :
                    index[q] = k /\ \A q2 \in DOMAIN index : index[q2] = k => q2 <= q]
        ELSE t[k]]

\* t.index_add_(0, index, src) on a flat tensor t: every src[q] is added at
\* index[q]
IndexAdd(t, index, src) ==
    [k \in DOMAIN t |-> t[k] + AddAt(index, src, k, Cardinality(DOMAIN index) - 1)]

\* index_add_ raises IndexError when an index is outside the tensor
IndexAddRaises(a, index) == \E q \in DOMAIN index : index[q] \notin FlatDomain(a)

\* m after the two index_add_ calls (lines 148-155), as rows
ProjectM(a, pnsA, bn, l, u) ==
    LET zeros == [q \in FlatDomain(a) |-> 0]
        srcL == [j \in DOMAIN bn |-> [i \in DOMAIN bn[j] |->
                    MassToLower(pnsA[j][i], u[j][i], bn[j][i], BDen(a))]]
        srcU == [j \in DOMAIN bn |-> [i \in DOMAIN bn[j] |->
                    MassToUpper(pnsA[j][i], l[j][i], bn[j][i], BDen(a))]]
        afterL == IndexAdd(zeros, FlatWithOffset(l, a), Flat(srcL, a))
    IN  Rows(IndexAdd(afterL, FlatWithOffset(u, a), Flat(srcU, a)), a)

\* an index_add_ of the projection raises IndexError
ProjectionRaises(a, l, u) ==
    IndexAddRaises(a, FlatWithOffset(l, a)) \/ IndexAddRaises(a, FlatWithOffset(u, a))

\* the index_add_ calls made (lines 153, 155): the first one that raises is the
\* last one made
IndexAddCalls(a, l, u) ==
    IF IndexAddRaises(a, FlatWithOffset(l, a))
    THEN <<"index_add_">>
    ELSE <<"index_add_", "index_add_">>

\* m is not a number: NaN probabilities, or a NaN b
ProjectionNaN(a, nanProbs) == nanProbs \/ BIsNaN(a)

\* m as the step holds it after line 155 (zeros stand for a NaN tensor)
ProjectedM(a, pnsA, bn, l, u, nanM) ==
    IF nanM THEN Rows([q \in FlatDomain(a) |-> 0], a)
    ELSE ProjectM(a, pnsA, bn, l, u)

\* ------------------------------------------------------ the learning step

\* log_ps_a = log_ps[range(batch_size), actions]   (negated)
NegLogPsA(a, theta, xi, batch) ==
    [j \in DOMAIN batch |->
        NetNegLog(theta, xi, batch[j].state, a.num_atoms)[batch[j].action]]

\* argmax_indices_ns = (support * online_net(next_states)).sum(2).argmax(1)
ArgmaxIndicesNs(a, theta, xi, batch) ==
    [j \in DOMAIN batch |-> GreedyAction(a, theta, xi, batch[j].next)]

\* pns_a = target_net(next_states)[range(batch_size), argmax_indices_ns]
PnsA(a, theta, xi, batch, astar) ==
    [j \in DOMAIN batch |->
        NetProbs(theta, xi, batch[j].next, a.num_atoms)[astar[j]]]

\* loss = -torch.sum(m * log_ps_a, 1)
LossOf(a, m, negLog) ==
    [j \in DOMAIN m |->
        SumTo([i \in 0 .. (a.num_atoms - 1) |-> m[j][i] * negLog[j][i]],
              a.num_atoms - 1)]

\* (weights * loss).mean(), as the numerator over batch_size
WeightedLoss(a, batch, loss) ==
    SumTo([j \in 0 .. (a.batch_size - 1) |-> batch[j].weight * loss[j]],
          a.batch_size - 1)

\* faulty variant: the priorities carry the importance weights
PriorityValuesWeighted(batch, loss) ==
    [j \in DOMAIN loss |-> batch[j].weight * loss[j]]

\* the values handed to mem.update_priorities: loss.detach().cpu().numpy()
PriorityValues(batch, loss) == loss

\* self.optimiser.step(): Adam moves the parameters; a NaN gradient or a NaN
\* parameter leaves NaN parameters
OptimiserStep(theta, nanLoss) ==
    IF nanLoss \/ IsNaN(theta) THEN NaNParam ELSE (theta + 1) % 2

\* ------------------------------------------------------------------ state

VARIABLES
    args,          \* the configuration the Agent was constructed with
    constructed,   \* "ok", or the exception Agent.__init__ raised
    online,        \* parameters of self.online_net
    target,        \* parameters of self.target_net
    onlineNoise,   \* noise realisation of the online net's noisy layers
    targetNoise,   \* noise realisation of the target net's noisy layers
    onlineTraining,\* self.online_net.training
    targetTraining,\* self.target_net.training
    targetRequiresGrad, \* requires_grad of the target net's parameters
    memSize,       \* transitions held by the replay memory
    snapshot,      \* the online parameters at the last update_target_net
    lastOp,        \* the operation that ran last
    raised,        \* the exception it raised, or "none"
    calls,         \* the calls it made on its collaborators, in order
    lrn,           \* what the last learn (or projection) computed
    result,        \* what the last operation returned
    projIn,        \* inputs of the projection block taken on its own
    task,          \* the PickupTask of gym_ai2thor/tasks.py
    launch,        \* the start-up of algorithms/a3c/main.py
    thorEnv        \* the ThorWrapperEnv of envs.py

vars == <<args, constructed, online, target, onlineNoise, targetNoise,
          onlineTraining, targetTraining, targetRequiresGrad, memSize,
          snapshot, lastOp, raised, calls, lrn, result, projIn, task, launch, thorEnv>>

agentVars == <<online, target, onlineNoise, targetNoise, onlineTraining,
               targetTraining, targetRequiresGrad, snapshot>>

BatchSizes == {2}      \* args.batch_size

\* configurations of the agent's life cycle
LifecycleArgs ==
    [num_atoms : {1, MaxAtoms}, V_min : VRange, V_max : {0},
     batch_size : BatchSizes, multi_step : {1}, discount : {<<1, 2>>}]

\* configurations of the projection
ProjArgs ==
    [num_atoms : 1 .. MaxAtoms, V_min : VRange, V_max : VRange,
     batch_size : BatchSizes, multi_step : 1 .. MaxN, discount : Discounts]

NoLearn ==
    [online |-> 0, xi |-> 0, idxs |-> << >>, astar |-> << >>,
     returns |-> << >>, nonterminals |-> << >>, pnsA |-> << >>,
     bNum |-> << >>, l |-> << >>, u |-> << >>, m |-> << >>, nanM |-> FALSE,
     loss |-> << >>, nanLoss |-> FALSE, backward |-> 0,
     prioIdxs |-> << >>, prioVals |-> << >>]

NoResult == [kind |-> "none", value |-> 0]
NoInput == [returns |-> << >>, nonterminals |-> << >>, pnsA |-> << >>]

\* no task has been created, main.py has not been started
NoTask == [created |-> FALSE]
NoLaunch == [started |-> FALSE]
NoEnv == [created |-> FALSE]
OthersIdle == task = NoTask /\ launch = NoLaunch /\ thorEnv = NoEnv

\* self.target_net.load_state_dict(self.online_net.state_dict())
LoadStateDict(from) == from

\* faulty variant: line 56 missing, the target keeps its own initialisation
TargetNotSynced(onlineParams) == FreshTarget

\* the target network's parameters once Agent.__init__ has run line 56
TargetAtInit(onlineParams) == LoadStateDict(onlineParams)

\* Agent.__init__(args, env) with args drawn from argSet
Construct(argSet, files, noises) ==
    /\ args \in argSet
    /\ \E file \in files, xo \in noises, xt \in noises :
        IF DeltaZRaises(args)
        THEN /\ constructed = "ZeroDivisionError"
             /\ online = FreshOnline /\ target = FreshTarget
             /\ onlineNoise = NoNoise /\ targetNoise = NoNoise
             /\ onlineTraining = FALSE /\ targetTraining = FALSE
             /\ targetRequiresGrad = TRUE
             /\ snapshot = FreshOnline
        ELSE /\ constructed = "ok"
             /\ online = (IF file = NoFile THEN FreshOnline ELSE file)
             /\ target = TargetAtInit(IF file = NoFile THEN FreshOnline ELSE file)
             /\ onlineNoise = xo /\ targetNoise = xt
             /\ onlineTraining = TRUE /\ targetTraining = TRUE
             /\ targetRequiresGrad = FALSE
             /\ snapshot = (IF file = NoFile THEN FreshOnline ELSE file)
    /\ memSize = 0
    /\ lastOp = "init"
    /\ raised = (IF DeltaZRaises(args) THEN "ZeroDivisionError" ELSE "none")
    /\ calls = << >>
    /\ lrn = NoLearn
    /\ result = NoResult

Init ==
    /\ Construct(LifecycleArgs, {NoFile} \cup Params, Noise)
    /\ projIn = NoInput
    /\ OthersIdle

\* ------------------------------------------------------------- operations

\* the environment loop stores one more transition (mem.append)
MemAppend ==
    /\ constructed = "ok"
    /\ memSize < MemCapacity
    /\ memSize' = memSize + 1
    /\ lastOp' = "mem.append" /\ raised' = "none" /\ calls' = << >>
    /\ lrn' = NoLearn /\ result' = NoResult
    /\ UNCHANGED <<args, constructed, agentVars, projIn, task, launch, thorEnv>>

\* Agent.reset_noise
ResetNoise ==
    /\ constructed = "ok"
    /\ \E xi \in Noise : onlineNoise' = xi
    /\ lastOp' = "reset_noise" /\ raised' = "none"
    /\ calls' = <<"online_net.reset_noise">>
    /\ lrn' = NoLearn /\ result' = NoResult
    /\ UNCHANGED <<args, constructed, online, target, targetNoise, onlineTraining,
                   targetTraining, targetRequiresGrad, snapshot, memSize, projIn, task, launch, thorEnv>>

\* what Agent.act(state) returns
ActResult(s) ==
    [kind |-> "action",
     value |-> GreedyAction(args, online, EffNoise(onlineNoise, onlineTraining), s),
     state |-> s]

\* Agent.act(state)
Act ==
    /\ constructed = "ok"
    /\ \E s \in States : result' = ActResult(s)
    /\ lastOp' = "act" /\ raised' = "none" /\ calls' = <<"online_net">>
    /\ lrn' = NoLearn
    /\ UNCHANGED <<args, constructed, agentVars, memSize, projIn, task, launch, thorEnv>>

\* np.random.random() and epsilon, in thousandths
Epsilons == {0, 1, 1000}
Randoms == {0, 999}

\* faulty variant: np.random.random() <= epsilon
ExploresInclusive(r, epsilon) == r <= epsilon

\* np.random.random() < epsilon
Explores(r, epsilon) == r < epsilon

\* Agent.act_e_greedy(state, epsilon); the result keeps the arguments of the
\* call beside the action returned
ActEGreedy ==
    /\ constructed = "ok"
    /\ \E s \in States, epsilon \in Epsilons, r \in Randoms, a \in Actions :
        IF Explores(r, epsilon)
        THEN /\ result' = [kind |-> "action", value |-> a,
                           state |-> s, epsilon |-> epsilon]
             /\ calls' = <<"np.random.random", "np.random.randint">>
        ELSE /\ result' = [kind |-> "action", value |-> ActResult(s).value,
                           state |-> s, epsilon |-> epsilon]
             /\ calls' = <<"np.random.random", "online_net">>
    /\ lastOp' = "act_e_greedy" /\ raised' = "none"
    /\ lrn' = NoLearn
    /\ UNCHANGED <<args, constructed, agentVars, memSize, projIn, task, launch, thorEnv>>

\* Agent.evaluate_q(state)
EvaluateQ ==
    /\ constructed = "ok"
    /\ \E s \in States :
        result' =
          IF IsNaN(online) THEN [kind |-> "nan", value |-> 0, state |-> s]
          ELSE [kind |-> "q",
                value |-> MaxOf(QNum(args, NetProbs(online,
                              EffNoise(onlineNoise, onlineTraining), s, args.num_atoms))),
                state |-> s]
    /\ lastOp' = "evaluate_q" /\ raised' = "none" /\ calls' = <<"online_net">>
    /\ lrn' = NoLearn
    /\ UNCHANGED <<args, constructed, agentVars, memSize, projIn, task, launch, thorEnv>>

\* Agent.update_target_net
UpdateTargetNet ==
    /\ constructed = "ok"
    /\ target' = LoadStateDict(online)
    /\ snapshot' = online
    /\ lastOp' = "update_target_net" /\ raised' = "none"
    /\ calls' = <<"target_net.load_state_dict">>
    /\ lrn' = NoLearn /\ result' = NoResult
    /\ UNCHANGED <<args, constructed, online, onlineNoise, targetNoise, onlineTraining,
                   targetTraining, targetRequiresGrad, memSize, projIn, task, launch, thorEnv>>

\* Agent.save(path)
Save ==
    /\ constructed = "ok"
    /\ result' = [kind |-> "file", value |-> online]
    /\ lastOp' = "save" /\ raised' = "none" /\ calls' = <<"torch.save">>
    /\ lrn' = NoLearn
    /\ UNCHANGED <<args, constructed, agentVars, memSize, projIn, task, launch, thorEnv>>

\* Agent.train
Train ==
    /\ constructed = "ok"
    /\ onlineTraining' = TRUE
    /\ lastOp' = "train" /\ raised' = "none" /\ calls' = <<"online_net.train">>
    /\ lrn' = NoLearn /\ result' = NoResult
    /\ UNCHANGED <<args, constructed, online, target, onlineNoise, targetNoise,
                   targetTraining, targetRequiresGrad, snapshot, memSize, projIn, task, launch, thorEnv>>

\* Agent.eval
Eval ==
    /\ constructed = "ok"
    /\ onlineTraining' = FALSE
    /\ lastOp' = "eval" /\ raised' = "none" /\ calls' = <<"online_net.eval">>
    /\ lrn' = NoLearn /\ result' = NoResult
    /\ UNCHANGED <<args, constructed, online, target, onlineNoise, targetNoise,
                   targetTraining, targetRequiresGrad, snapshot, memSize, projIn, task, launch, thorEnv>>

\* --------------------------------------------------------- Agent.learn(mem)

LearnCalls ==
    <<"mem.sample", "online_net(log)", "online_net", "target_net.reset_noise",
      "target_net", "index_add_", "index_add_", "zero_grad", "backward",
      "optimiser.step", "mem.update_priorities">>

\* the calls made until the first index_add_ raises
LearnCallsToIndexAdd == SubSeq(LearnCalls, 1, 6)

\* faulty variant: a failed sample is tried again
LearnCallsRetry == <<"mem.sample", "mem.sample">>

\* the calls made when mem.sample raises
LearnCallsToSample == SubSeq(LearnCalls, 1, 1)

\* mem.sample raises: the exception leaves learn at line 85
LearnInsufficient ==
    /\ constructed = "ok"
    /\ SampleFails(memSize, args.batch_size)
    /\ lastOp' = "learn" /\ raised' = "InsufficientSamples"
    /\ calls' = LearnCallsToSample
    /\ lrn' = NoLearn /\ result' = NoResult
    /\ UNCHANGED <<args, constructed, agentVars, memSize, projIn, task, launch, thorEnv>>

\* faulty variant: the optimiser holds the target network's parameters too
TargetSteppedToo(thetaOnline, thetaTarget, nanLoss) == OptimiserStep(thetaTarget, nanLoss)

\* the parameters of the two networks after a completed step
OnlineAfterLearn(thetaOnline, thetaTarget, nanLoss) == OptimiserStep(thetaOnline, nanLoss)
TargetAfterLearn(thetaOnline, thetaTarget, nanLoss) == thetaTarget

\* faulty variant: the target network selects the action it evaluates
SelectingNetTarget(thetaOnline, thetaTarget) == thetaTarget

\* the network whose next-state values select the action, and the network
\* whose distribution at that action is projected
SelectingNet(thetaOnline, thetaTarget) == thetaOnline
EvaluatingNet(thetaOnline, thetaTarget) == thetaTarget

\* what a completed step leaves in lrn
LearnRecord(a, theta, xiOn, idxs, batch, astar, pnsA, bn, l, u, m, nanM, negLog, nanLoss) ==
    [online |-> theta, xi |-> xiOn, idxs |-> idxs, astar |-> astar,
     returns |-> [j \in DOMAIN batch |-> batch[j].ret],
     nonterminals |-> [j \in DOMAIN batch |-> batch[j].nonterminal],
     pnsA |-> pnsA, bNum |-> bn, l |-> l, u |-> u, m |-> m, nanM |-> nanM,
     loss |-> LossOf(a, m, negLog), nanLoss |-> nanLoss,
     backward |-> WeightedLoss(a, batch, LossOf(a, m, negLog)),
     prioIdxs |-> idxs,
     prioVals |-> PriorityValues(batch, LossOf(a, m, negLog))]

\* Agent.learn has no return statement: its caller gets None
LearnReturn == NoResult

\* mem.sample succeeds: the step runs to its end, or to an index_add_ that
\* raises IndexError.  (Each stage's tensor is bound once it is computed.)
LearnSampled ==
    /\ constructed = "ok"
    /\ ~SampleFails(memSize, args.batch_size)
    /\ \E idxs \in [0 .. (args.batch_size - 1) -> 1 .. memSize],
          xi \in Noise, cast \in NaNCasts :
       \E batch \in {BatchOf(idxs)} :
       \E xiOn \in {EffNoise(onlineNoise, onlineTraining)} :
       \E negLog \in {NegLogPsA(args, online, xiOn, batch)} :
       \E astar \in {ArgmaxIndicesNs(args, SelectingNet(online, target), xiOn, batch)} :
       \E pnsA \in {PnsA(args, EvaluatingNet(online, target),
                         EffNoise(xi, targetTraining), batch, astar)} :
       \E bn \in {BNumRows(args, [j \in DOMAIN batch |-> batch[j].ret],
                           [j \in DOMAIN batch |-> batch[j].nonterminal])} :
       \E l \in {LowerRows(args, bn, cast)} :
       \E u \in {UpperRows(args, bn, l, cast)} :
       \E nanM \in {ProjectionNaN(args, IsNaN(EvaluatingNet(online, target)))} :
       \E nanLoss \in {nanM \/ IsNaN(online)} :
            /\ targetNoise' = xi
            /\ IF ProjectionRaises(args, l, u)
               THEN /\ raised' = "IndexError"
                    /\ calls' = IF Len(IndexAddCalls(args, l, u)) = 1
                                THEN LearnCallsToIndexAdd
                                ELSE SubSeq(LearnCalls, 1, 7)
                    /\ lrn' = NoLearn
                    /\ UNCHANGED <<online, target>>
               ELSE \E m \in {ProjectedM(args, pnsA, bn, l, u, nanM)} :
                    /\ raised' = "none"
                    /\ calls' = LearnCalls
                    /\ online' = OnlineAfterLearn(online, target, nanLoss)
                    /\ target' = TargetAfterLearn(online, target, nanLoss)
                    /\ lrn' = LearnRecord(args, online, xiOn, idxs, batch, astar, pnsA,
                                          bn, l, u, m, nanM, negLog, nanLoss)
    /\ lastOp' = "learn"
    /\ result' = LearnReturn
    /\ UNCHANGED <<args, constructed, onlineNoise, onlineTraining,
                   targetTraining, targetRequiresGrad, snapshot, memSize, projIn, task, launch, thorEnv>>

Next ==
    \/ MemAppend
    \/ ResetNoise
    \/ Act
    \/ ActEGreedy
    \/ EvaluateQ
    \/ LearnInsufficient
    \/ LearnSampled
    \/ UpdateTargetNet
    \/ Save
    \/ Train
    \/ Eval

Spec == Init /\ [][Next]_vars

\* ------------------------------------- the projection block on its own

\* returns (in 1/RetDen) and target distributions the block is applied to
Returns == {-MaxRet, 0, 1, MaxRet}
PointMass(k, N) == [i \in 0 .. (N - 1) |-> IF i = k THEN PTotal(N) ELSE 0]
EndsHeavy(N) ==
    [i \in 0 .. (N - 1) |-> 1 + (IF i = 0 THEN 1 ELSE 0) + (IF i = N - 1 THEN 1 ELSE 0)]
ProjDists(N) == {PointMass(0, N), PointMass(N - 1, N), EndsHeavy(N)}

ProjInputs(a) ==
    [returns : [0 .. (a.batch_size - 1) -> Returns],
     nonterminals : [0 .. (a.batch_size - 1) -> {0, 1}],
     pnsA : [0 .. (a.batch_size - 1) -> ProjDists(a.num_atoms)]]

\* an Agent just constructed, and the tensors that reach line 123
InitProj ==
    /\ Construct(ProjArgs, {NoFile}, {1})
    /\ IF constructed = "ok" THEN projIn \in ProjInputs(args) ELSE projIn = NoInput
    /\ OthersIdle

\* lines 123-155 of Agent.learn applied to projIn
Project ==
    /\ constructed = "ok"
    /\ projIn # NoInput
    /\ \E cast \in NaNCasts :
       \E bn \in {BNumRows(args, projIn.returns, projIn.nonterminals)} :
       \E l \in {LowerRows(args, bn, cast)} :
       \E u \in {UpperRows(args, bn, l, cast)} :
       \E nanM \in {ProjectionNaN(args, FALSE)} :
            IF ProjectionRaises(args, l, u)
            THEN /\ raised' = "IndexError"
                 /\ lrn' = NoLearn
                 \* the first index_add_ (line 153) that raises is the last call
                 /\ calls' = IndexAddCalls(args, l, u)
            ELSE /\ raised' = "none"
                 /\ calls' = IndexAddCalls(args, l, u)
                 /\ lrn' = [NoLearn EXCEPT
                              !.returns = projIn.returns,
                              !.nonterminals = projIn.nonterminals,
                              !.pnsA = projIn.pnsA,
                              !.bNum = bn, !.l = l, !.u = u, !.nanM = nanM,
                              !.m = ProjectedM(args, projIn.pnsA, bn, l, u, nanM)]
    /\ lastOp' = "projection"
    /\ result' = NoResult
    /\ UNCHANGED <<args, constructed, agentVars, memSize, projIn, task, launch, thorEnv>>

NextProj == Project

SpecProj == InitProj /\ [][NextProj]_vars

\* ------------------------- the projection block on a five-atom support

\* num_atoms = 5, V_min = -2, V_max = 2, discount = 0.99, n = 1
ExampleArgs ==
    [num_atoms : {5}, V_min : {-2}, V_max : {2},
     batch_size : BatchSizes, multi_step : {1}, discount : {<<99, 100>>}]

\* target distributions in halves: [0.5, 0, 0, 0, 0.5] and two point masses
HalfHalf == [i \in 0 .. 4 |-> IF i \in {0, 4} THEN 1 ELSE 0]
ExampleDists ==
    {HalfHalf, [i \in 0 .. 4 |-> IF i = 2 THEN 2 ELSE 0],
     [i \in 0 .. 4 |-> IF i = 0 THEN 2 ELSE 0]}

\* returns -1, 0 and 1
ExampleInputs(a) ==
    [returns : [0 .. (a.batch_size - 1) -> {-RetDen, 0, RetDen}],
     nonterminals : [0 .. (a.batch_size - 1) -> {0, 1}],
     pnsA : [0 .. (a.batch_size - 1) -> ExampleDists]]

InitExample ==
    /\ Construct(ExampleArgs, {NoFile}, {1})
    /\ projIn \in ExampleInputs(args)
    /\ OthersIdle

SpecExample == InitExample /\ [][NextProj]_vars

\* ------------------------------------ PickupTask (gym_ai2thor/tasks.py)

MaxInv == 2        \* objects an event's inventory holds at most
MaxPicked == 2     \* pickups of one object type followed in one episode
MaxSteps == 3      \* steps of one episode followed

Types == {"Mug", "Apple"}

\* event.metadata['inventoryObjects'], as the sequence of the object types
Inventories == UNION {[1 .. n -> Types] : n \in 0 .. MaxInv}

\* Counter(): every count 0
EmptyCounter == [t \in Types |-> 0]

\* Counter(self.target_objects): the occurrences of each type in the tuple
ObjectRewards(targets) ==
    [t \in Types |-> Cardinality({k \in DOMAIN targets : targets[k] = t})]

\* Counter(goal if goal else {obj: float('inf') for obj in target_objects}):
\* the types counted infinite, and the finite counts
NoGoal == [given |-> FALSE, counts |-> EmptyCounter]
GoalCounter(goal, targets) ==
    IF goal.given THEN [infs |-> {}, counts |-> goal.counts]
    ELSE [infs |-> {targets[k] : k \in DOMAIN targets}, counts |-> EmptyCounter]

\* self.goal == self.pickedup_objects
GoalReached(goal, picked) == goal.infs = {} /\ goal.counts = picked

\* self.max_episode_length and self.step_num >= self.max_episode_length
MaxLengthReached(maxLen, stepNum) == maxLen # 0 /\ stepNum >= maxLen

\* faulty variant: the previous inventory is not looked at
ObjectPickedUpAnyPrev(prev, cur, targets) ==
    cur # << >> /\ \E k \in DOMAIN targets : targets[k] = cur[1]

\* not self.prev_inventory and curr_inventory and
\* curr_inventory[0]['objectType'] in self.target_objects
ObjectPickedUp(prev, cur, targets) ==
    prev = << >> /\ cur # << >> /\ \E k \in DOMAIN targets : targets[k] = cur[1]

\* the keyword arguments a PickupTask is created with
TaskConfigs ==
    [target_objects : {<<"Mug">>, <<"Apple", "Mug">>, << >>},
     movement_reward : {-1, 0},
     goal : {NoGoal, [given |-> TRUE, counts |-> [t \in Types |-> IF t = "Mug" THEN 1 ELSE 0]]},
     max_episode_length : {0, 2}]

\* PickupTask.__init__(target_objects, goal, **kwargs), reset() included
PickupTaskNew(cfg) ==
    [created |-> TRUE,
     target_objects |-> cfg.target_objects,
     movement_reward |-> cfg.movement_reward,
     max_episode_length |-> cfg.max_episode_length,
     goal |-> GoalCounter(cfg.goal, cfg.target_objects),
     object_rewards |-> ObjectRewards(cfg.target_objects),
     pickedup_objects |-> EmptyCounter,
     prev_inventory |-> << >>,
     step_num |-> 0]

\* no Agent in this process
AgentAbsent ==
    /\ args = << >> /\ constructed = "absent"
    /\ online = FreshOnline /\ target = FreshTarget
    /\ onlineNoise = NoNoise /\ targetNoise = NoNoise
    /\ onlineTraining = FALSE /\ targetTraining = FALSE
    /\ targetRequiresGrad = TRUE /\ snapshot = FreshOnline
    /\ memSize = 0 /\ lastOp = "init" /\ raised = "none" /\ calls = << >>
    /\ lrn = NoLearn /\ result = NoResult /\ projIn = NoInput

InitTask ==
    /\ AgentAbsent
    /\ launch = NoLaunch /\ thorEnv = NoEnv
    /\ \E cfg \in TaskConfigs : task = PickupTaskNew(cfg)

\* PickupTask.transition_reward(event); the result keeps the event's
\* inventory beside the (reward, done) returned
TransitionReward ==
    /\ task.created
    /\ \E cur \in Inventories :
       \E picked \in {ObjectPickedUp(task.prev_inventory, cur, task.target_objects)} :
       \E after \in {IF picked
                     THEN [task.pickedup_objects EXCEPT ![cur[1]] = @ + 1]
                     ELSE task.pickedup_objects} :
            /\ \A t \in Types : after[t] <= MaxPicked
            /\ task' = [task EXCEPT !.pickedup_objects = after, !.prev_inventory = cur]
            /\ result' =
                 [kind |-> "reward",
                  value |-> task.movement_reward
                              + (IF picked THEN task.object_rewards[cur[1]] ELSE 0),
                  done |-> MaxLengthReached(task.max_episode_length, task.step_num)
                             \/ GoalReached(task.goal, after),
                  event |-> cur]
    /\ lastOp' = "transition_reward" /\ raised' = "none" /\ calls' = << >>
    /\ lrn' = NoLearn
    /\ UNCHANGED <<args, constructed, agentVars, memSize, projIn, launch, thorEnv>>

\* PickupTask.reset()
TaskReset ==
    /\ task.created
    /\ "pickedup_objects" \in DOMAIN task
    /\ task' = [task EXCEPT !.pickedup_objects = EmptyCounter,
                            !.prev_inventory = << >>, !.step_num = 0]
    /\ lastOp' = "task.reset" /\ raised' = "none" /\ calls' = << >>
    /\ lrn' = NoLearn /\ result' = NoResult
    /\ UNCHANGED <<args, constructed, agentVars, memSize, projIn, launch, thorEnv>>

\* the environment counts a step of the episode: task.step_num += 1
TaskStepNum ==
    /\ task.created
    /\ task.step_num < MaxSteps
    /\ task' = [task EXCEPT !.step_num = @ + 1]
    /\ lastOp' = "task.step_num" /\ raised' = "none" /\ calls' = << >>
    /\ lrn' = NoLearn /\ result' = NoResult
    /\ UNCHANGED <<args, constructed, agentVars, memSize, projIn, launch, thorEnv>>

NextTask ==
    \/ TransitionReward
    \/ TaskReset
    \/ TaskStepNum

SpecTask == InitTask /\ [][NextTask]_vars

\* ------------------------------ TaskFactory (gym_ai2thor/tasks.py)

\* the task names create_task knows, and names it does not know
KnownTaskNames ==
    {"PickUp", "NaturalLanguageLookAtObjectTask",
     "NaturalLanguageNavigateToObjectTask", "NaturalLanguagePickUpObjectTask"}
TaskNames == KnownTaskNames \cup {"pickup", "LookAt"}

\* config['task'] without a 'target_object' key
NoKey == "<no key>"

\* config: config['task']['task_name'], config['task']['target_object'],
\* the other keys of config['task'], and config['pickup_objects']
FactoryConfigs ==
    [task_name : TaskNames,
     target_object : Types \cup {"Fridge", NoKey},
     kwargs : {c \in TaskConfigs : c.goal = NoGoal /\ c.movement_reward = 0
                                    /\ c.max_episode_length = 2},
     pickup_objects : {{"Mug", "Apple"}, {"Apple"}, {}}]

\* faulty variant: the target object is not looked up
PickupableAlways(targetObject, pickupObjects) == TRUE

\* config['task']['target_object'] in config['pickup_objects']
Pickupable(targetObject, pickupObjects) == targetObject \in pickupObjects

\* NaturalLanguageLookAtObjectTask(**config['task']): the keyword arguments
\* are not passed on, so BaseTask gets an empty config and the instructions
\* keep their default; the instruction is drawn by random.randint
LookAtTaskNew(idx) ==
    [created |-> TRUE,
     task_has_language_instructions |-> TRUE,
     max_episode_length |-> 1000, movement_reward |-> 0, step_num |-> 0,
     train_instructions |-> <<"Bowl", "Mug">>,
     curr_instruction_idx |-> idx,
     curr_object_type |-> <<"Bowl", "Mug">>[idx + 1],
     default_reward |-> 1]

\* what create_task(config) does: the exception raised, the class of the task
\* returned and the task itself.  NaturalLanguageNavigateToObjectTask and
\* NaturalLanguagePickUpObjectTask hand their kwargs dict to
\* NaturalLanguageBaseTask as list_of_instructions; indexing that dict with
\* the integer drawn (line 129) raises KeyError.
CreateOutcome(config, idx) ==
    CASE config.task_name = "PickUp" /\ config.target_object = NoKey ->
            [raised |-> "KeyError", class |-> "none", task |-> NoTask]
      [] config.task_name = "PickUp" /\ config.target_object # NoKey ->
            IF Pickupable(config.target_object, config.pickup_objects)
            THEN [raised |-> "none", class |-> "PickupTask",
                  task |-> PickupTaskNew(config.kwargs)]
            ELSE [raised |-> "InvalidTaskParams", class |-> "none", task |-> NoTask]
      [] config.task_name = "NaturalLanguageLookAtObjectTask" ->
            [raised |-> "none", class |-> "NaturalLanguageLookAtObjectTask",
             task |-> LookAtTaskNew(idx)]
      [] config.task_name \in {"NaturalLanguageNavigateToObjectTask",
                               "NaturalLanguagePickUpObjectTask"} ->
            [raised |-> "KeyError", class |-> "none", task |-> NoTask]
      [] OTHER ->
            [raised |-> "NotImplementedError", class |-> "none", task |-> NoTask]

InitFactory ==
    /\ AgentAbsent
    /\ OthersIdle

\* TaskFactory.create_task(config); the result keeps the config beside the
\* class of the task returned, task is the last task created
CreateTask ==
    /\ \E config \in FactoryConfigs, idx \in {0, 1} :
       \E out \in {CreateOutcome(config, idx)} :
            /\ raised' = out.raised
            /\ task' = (IF out.raised = "none" THEN out.task ELSE task)
            /\ result' = [kind |-> (IF out.raised = "none" THEN "task" ELSE "none"),
                          class |-> out.class, config |-> config]
    /\ lastOp' = "create_task" /\ calls' = << >>
    /\ lrn' = NoLearn
    /\ UNCHANGED <<args, constructed, agentVars, memSize, projIn, launch, thorEnv>>

\* NaturalLanguageLookAtObjectTask.reset(), that is
\* NaturalLanguageBaseTask.reset(): a new instruction is drawn by
\* random.randint and returned
LookAtReset ==
    /\ task.created
    /\ "curr_instruction_idx" \in DOMAIN task
    /\ \E idx \in 0 .. (Len(task.train_instructions) - 1) :
          /\ task' = [task EXCEPT
                        !.curr_instruction_idx = idx,
                        !.curr_object_type = task.train_instructions[idx + 1]]
          /\ result' = [kind |-> "instruction",
                        value |-> task.train_instructions[idx + 1]]
    /\ lastOp' = "task.reset" /\ raised' = "none" /\ calls' = << >>
    /\ lrn' = NoLearn
    /\ UNCHANGED <<args, constructed, agentVars, memSize, projIn, launch, thorEnv>>

NextFactory ==
    \/ CreateTask
    \/ TaskReset
    \/ LookAtReset

SpecFactory == InitFactory /\ [][NextFactory]_vars

\* ------------------------------- start-up of algorithms/a3c/main.py

MaxProcs == 3      \* args.num_processes at most

\* faulty variant: the synchronous branch keeps args.num_processes
SyncNumProcessesKept(n) == n

\* args.num_processes = 1 (line 285)
SyncNumProcesses(n) == 1

\* mp.Process(target=test, args=(args.num_processes, ...)) and
\* mp.Process(target=train, args=(rank, ...))
TestProcess(n) == [target |-> "test", rank |-> n]
TrainProcess(rank) == [target |-> "train", rank |-> rank]

\* how a train() or a child process ends
Outcomes == {"returned", "raised"}

\* the exceptions that reach the main process in the try block
MainRaises == {"KeyboardInterrupt", "OSError"}

\* where a KeyboardInterrupt arrives in the finally block, if it does
FinallyInterrupts == {"none", "before export", "before close"}

\* how a call of the summary writer ends
WriterEnds == {"returned", "KeyboardInterrupt", "OSError"}

\* main.py has reached line 264: no process started, nothing run
LaunchNew(synchronous, n) ==
    [started |-> TRUE, synchronous |-> synchronous, num_processes |-> n,
     pc |-> "try", rank |-> 0, processes |-> << >>, joined |-> << >>,
     mainCalls |-> << >>, writerCalls |-> << >>, raisedOut |-> "none",
     tryRaised |-> "none", writerRaised |-> "none",
     finallyInterrupted |-> "none"]

everythingButLaunch ==
    <<args, constructed, agentVars, memSize, lastOp, raised, calls, lrn, result,
      projIn, task, thorEnv>>

InitLaunch ==
    /\ AgentAbsent
    /\ task = NoTask /\ thorEnv = NoEnv
    /\ \E synchronous \in BOOLEAN, n \in 0 .. MaxProcs :
          launch = LaunchNew(synchronous, n)

\* lines 271-273: the test process is started first
LaunchStartTest ==
    /\ launch.started /\ launch.pc = "try" /\ ~launch.synchronous
    /\ launch' = [launch EXCEPT
                    !.processes = Append(@, TestProcess(launch.num_processes)),
                    !.pc = "spawn"]
    /\ UNCHANGED everythingButLaunch

\* lines 275-279: one train process per rank
LaunchStartTrain ==
    /\ launch.started /\ launch.pc = "spawn"
    /\ launch.rank < launch.num_processes
    /\ launch' = [launch EXCEPT
                    !.processes = Append(@, TrainProcess(launch.rank)),
                    !.rank = @ + 1]
    /\ UNCHANGED everythingButLaunch

\* lines 280-281: p.join() returns once the process has ended, however it
\* ended
LaunchJoin ==
    /\ launch.started /\ launch.pc \in {"spawn", "join"}
    /\ launch.rank = launch.num_processes
    /\ Len(launch.joined) < Len(launch.processes)
    /\ \E outcome \in Outcomes :
          launch' = [launch EXCEPT !.joined = Append(@, outcome), !.pc = "join"]
    /\ UNCHANGED everythingButLaunch

\* the loop of lines 280-281 ends after the last join and the try block is
\* left without an exception
LaunchJoinsEnd ==
    /\ launch.started /\ launch.pc = "join"
    /\ Len(launch.joined) = Len(launch.processes)
    /\ launch' = [launch EXCEPT !.pc = "finally"]
    /\ UNCHANGED everythingButLaunch

\* an exception leaves the try block (lines 268-287) other than through
\* train(): a KeyboardInterrupt can arrive at any point of either branch, in
\* the synchronous one before train() is called, with or without line 285
\* executed; mp.Process() and p.start() can raise OSError while a process is
\* created or started (lines 271-272, 276-278).  The process being started
\* is not in the list.
LaunchInterrupt ==
    /\ launch.started
    /\ launch.pc \in {"try", "spawn", "join"}
    /\ \E exc \in MainRaises :
          /\ exc = "OSError" =>
                /\ ~launch.synchronous
                /\ \/ launch.pc = "try"
                   \/ launch.pc = "spawn" /\ launch.rank < launch.num_processes
          /\ \E n \in (IF launch.synchronous
                        THEN {launch.num_processes,
                              SyncNumProcesses(launch.num_processes)}
                        ELSE {launch.num_processes}) :
                launch' = [launch EXCEPT !.pc = "finally", !.raisedOut = exc,
                                         !.tryRaised = exc, !.num_processes = n]
    /\ UNCHANGED everythingButLaunch

\* lines 284-287: the synchronous branch, train() in the main process; a
\* KeyboardInterrupt can still arrive in the try block once train() has
\* returned
LaunchSyncTrain ==
    /\ launch.started /\ launch.pc = "try" /\ launch.synchronous
    /\ \E outcome \in Outcomes, interrupted \in BOOLEAN :
       \E exc \in {IF outcome = "raised" THEN "train"
                   ELSE IF interrupted THEN "KeyboardInterrupt" ELSE "none"} :
          launch' = [launch EXCEPT
                       !.num_processes = SyncNumProcesses(@),
                       !.mainCalls = Append(@, TrainProcess(0)),
                       !.raisedOut = exc,
                       !.tryRaised = exc,
                       !.pc = "finally"]
    /\ UNCHANGED everythingButLaunch

\* lines 288-290: the finally block.  A KeyboardInterrupt can arrive before
\* export_scalars_to_json is called (while line 289 builds the path) or
\* between the two calls; an exception of export_scalars_to_json leaves the
\* block before close() is called; the exception raised in the block is the
\* one that leaves main.py.
LaunchFinally ==
    /\ launch.started /\ launch.pc = "finally"
    /\ \E interrupted \in FinallyInterrupts,
          exportEnd \in WriterEnds, closeEnd \in WriterEnds :
          launch' = [launch EXCEPT
                       !.finallyInterrupted =
                           IF interrupted = "before export" THEN interrupted
                           ELSE IF exportEnd # "returned" THEN "none"
                           ELSE interrupted,
                       !.writerCalls =
                           IF interrupted = "before export" THEN << >>
                           ELSE IF exportEnd # "returned" \/ interrupted = "before close"
                           THEN <<"export_scalars_to_json">>
                           ELSE <<"export_scalars_to_json", "close">>,
                       !.writerRaised =
                           IF interrupted = "before export" THEN "none"
                           ELSE IF exportEnd # "returned" THEN "export_scalars_to_json"
                           ELSE IF interrupted = "before close" THEN "none"
                           ELSE IF closeEnd # "returned" THEN "close"
                           ELSE "none",
                       !.raisedOut =
                           IF interrupted = "before export" THEN "KeyboardInterrupt"
                           ELSE IF exportEnd # "returned" THEN exportEnd
                           ELSE IF interrupted = "before close" THEN "KeyboardInterrupt"
                           ELSE IF closeEnd # "returned" THEN closeEnd
                           ELSE @,
                       !.pc = "done"]
    /\ UNCHANGED everythingButLaunch

NextLaunch ==
    \/ LaunchStartTest
    \/ LaunchStartTrain
    \/ LaunchJoin
    \/ LaunchJoinsEnd
    \/ LaunchInterrupt
    \/ LaunchSyncTrain
    \/ LaunchFinally

SpecLaunch == InitLaunch /\ [][NextLaunch]_vars

\* ------------------------------------------- ThorWrapperEnv (envs.py)

NumMugs == 3               \* mugs of the scene
MugIds == 1 .. NumMugs     \* their objectIds
NoMug == 0                 \* no mug (none visible, none picked up)
EpisodeCutOff == 1000      \* self.episode_cut_off

\* action_int: 8 is PickupObject, 9 is PutObject, 0 stands for the moves
EnvActions == {0, 8, 9}

\* calculate_reward() with self.task == 0, given last_amount_of_mugs and
\* len(self.mugs_ids_collected_and_placed): the reward returned and the new
\* last_amount_of_mugs
CalculateReward(last, amount) ==
    IF last # amount /\ last < amount
    THEN [reward |-> 1, last |-> amount]
    ELSE [reward |-> 0, last |-> amount]

\* is_episode_finished(): the flag returned and the set it leaves
IsEpisodeFinished(t, mugs) ==
    IF t > EpisodeCutOff THEN [done |-> TRUE, mugs |-> mugs]
    ELSE IF Cardinality(mugs) = 3 THEN [done |-> TRUE, mugs |-> {}]
    ELSE [done |-> FALSE, mugs |-> mugs]

\* lines 47-82 of step: what the action leaves, given the first visible mug,
\* whether a receptacle is visible, and whether the controller carries the
\* action out (raise_for_failure=True raises when it does not)
AfterAction(e, action_int, visible, receptacle, ok) ==
    CASE action_int = 8 /\ e.inventory = << >> /\ visible # NoMug ->
            IF ok
            THEN [raised |-> "none", inventory |-> <<visible>>,
                  mugs |-> e.mugs \cup {visible}, picked |-> visible]
            ELSE [raised |-> "AssertionError", inventory |-> e.inventory,
                  mugs |-> e.mugs, picked |-> NoMug]
      [] action_int = 9 /\ e.inventory # << >> /\ receptacle /\ ok ->
            \* remove() of an id the set does not hold raises KeyError, which
            \* the except clause swallows
            [raised |-> "none", inventory |-> << >>,
             mugs |-> e.mugs \ {e.inventory[1]}, picked |-> NoMug]
      [] OTHER ->
            [raised |-> "none", inventory |-> e.inventory,
             mugs |-> e.mugs, picked |-> NoMug]

\* ThorWrapperEnv.__init__(task=0)
EnvNew ==
    [created |-> TRUE, task |-> 0, t |-> 0, inventory |-> << >>,
     mugs |-> {}, last |-> 0]

InitEnv ==
    /\ AgentAbsent
    /\ task = NoTask /\ launch = NoLaunch
    /\ thorEnv = EnvNew

\* ThorWrapperEnv.step(action_int); the result keeps the action and the mug
\* picked up beside the reward and the episode flag returned.  t is followed
\* up to EpisodeCutOff + 1, beyond which it makes no difference.
EnvStep ==
    /\ thorEnv.created
    /\ \E action_int \in EnvActions, visible \in MugIds \cup {NoMug},
          receptacle \in BOOLEAN, ok \in BOOLEAN :
       \E after \in {AfterAction(thorEnv, action_int, visible, receptacle, ok)} :
            IF after.raised # "none"
            THEN /\ raised' = after.raised
                 /\ result' = NoResult
                 /\ thorEnv' = thorEnv
            ELSE \E t \in {Min(thorEnv.t + 1, EpisodeCutOff + 1)} :
                 \E rew \in {CalculateReward(thorEnv.last, Cardinality(after.mugs))} :
                 \E fin \in {IsEpisodeFinished(t, after.mugs)} :
                    /\ raised' = "none"
                    /\ result' = [kind |-> "step", reward |-> rew.reward,
                                  done |-> fin.done, action |-> action_int,
                                  picked |-> after.picked]
                    /\ thorEnv' = [thorEnv EXCEPT
                                     !.t = t, !.inventory = after.inventory,
                                     !.mugs = fin.mugs, !.last = rew.last]
    /\ lastOp' = "env.step" /\ calls' = << >>
    /\ lrn' = NoLearn
    /\ UNCHANGED <<args, constructed, agentVars, memSize, projIn, task, launch>>

\* ThorWrapperEnv.reset(): the scene is loaded again; whether the controller
\* empties the inventory is the controller's matter
EnvReset ==
    /\ thorEnv.created
    /\ \E inventory \in {<< >>, thorEnv.inventory} :
          thorEnv' = [thorEnv EXCEPT !.t = 0, !.inventory = inventory]
    /\ lastOp' = "env.reset" /\ raised' = "none" /\ calls' = << >>
    /\ lrn' = NoLearn /\ result' = NoResult
    /\ UNCHANGED <<args, constructed, agentVars, memSize, projIn, task, launch>>

\* ThorWrapperEnv.get_total_reward()
EnvGetTotalReward ==
    /\ thorEnv.created
    /\ result' = [kind |-> "total", value |-> Cardinality(thorEnv.mugs)]
    /\ lastOp' = "env.get_total_reward" /\ raised' = "none" /\ calls' = << >>
    /\ lrn' = NoLearn
    /\ UNCHANGED <<args, constructed, agentVars, memSize, projIn, task, launch, thorEnv>>

\* ThorWrapperEnv.calculate_reward() called on its own
EnvCalculateReward ==
    /\ thorEnv.created
    /\ \E rew \in {CalculateReward(thorEnv.last, Cardinality(thorEnv.mugs))} :
          /\ thorEnv' = [thorEnv EXCEPT !.last = rew.last]
          /\ result' = [kind |-> "env.reward", value |-> rew.reward]
    /\ lastOp' = "env.calculate_reward" /\ raised' = "none" /\ calls' = << >>
    /\ lrn' = NoLearn
    /\ UNCHANGED <<args, constructed, agentVars, memSize, projIn, task, launch>>

\* ThorWrapperEnv.is_episode_finished() called on its own
EnvIsEpisodeFinished ==
    /\ thorEnv.created
    /\ \E fin \in {IsEpisodeFinished(thorEnv.t, thorEnv.mugs)} :
          /\ thorEnv' = [thorEnv EXCEPT !.mugs = fin.mugs]
          /\ result' = [kind |-> "env.done", value |-> fin.done]
    /\ lastOp' = "env.is_episode_finished" /\ raised' = "none" /\ calls' = << >>
    /\ lrn' = NoLearn
    /\ UNCHANGED <<args, constructed, agentVars, memSize, projIn, task, launch>>

NextEnv ==
    \/ EnvStep
    \/ EnvReset
    \/ EnvGetTotalReward
    \/ EnvCalculateReward
    \/ EnvIsEpisodeFinished

SpecEnv == InitEnv /\ [][NextEnv]_vars

\* ================================================================ claims

\* a support grid as the specification's data model describes it
ValidSupport(a) == a.num_atoms >= 2 /\ a.V_min < a.V_max

\* the projection block ran to its end (on its own or inside learn)
Projected == lastOp \in {"projection", "learn"} /\ raised = "none"

RowIdx == 0 .. (args.batch_size - 1)
AtomIdx == 0 .. (args.num_atoms - 1)

RowSum(row) == SumTo(row, args.num_atoms - 1)

\* one unit of probability, in the units m is held in
MassOne == PTotal(args.num_atoms) * BDen(args)

\* b of source atom i of row j is an integer
BIsInteger(j, i) == lrn.bNum[j][i] % BDen(args) = 0

\* C1: mass conservation.  For every valid support, every return,
\* non-terminal flag and discount ** n: whenever the target distribution at
\* the selected action sums to 1, the projected row of m sums to 1.
C1_MassConservation ==
    (Projected /\ ValidSupport(args) /\ ~lrn.nanM) =>
        \A j \in RowIdx :
            RowSum(lrn.pnsA[j]) = PTotal(args.num_atoms) => RowSum(lrn.m[j]) = MassOne

\* C1 witness: a projection of a valid support in which one row has a
\* fractional b (its mass is split over two slots), another row is clamped,
\* and both rows received their whole mass.
C1_Witness ==
    /\ lastOp = "projection" /\ raised = "none" /\ ValidSupport(args)
    /\ \E j \in RowIdx, i \in AtomIdx :
        /\ ~BIsInteger(j, i)
        /\ lrn.pnsA[j][i] > 0
        /\ lrn.m[j][lrn.l[j][i]] > 0 /\ lrn.m[j][lrn.u[j][i]] > 0
    /\ \E j \in RowIdx, i \in AtomIdx :
        TzNum(args, lrn.returns[j], lrn.nonterminals[j], i) > args.V_max * TzDen(args)
    /\ \A j \in RowIdx : RowSum(lrn.m[j]) = MassOne

\* C2: support containment.  For every source atom of every row the slot
\* indices l and u used for accumulation lie in 0 .. num_atoms-1, however far
\* Tz lies outside [V_min, V_max]: no index_add_ raises and no mass reaches
\* another row.
C2_SupportContainment ==
    (lastOp = "projection" /\ ValidSupport(args)) =>
        /\ raised = "none"
        /\ \A j \in RowIdx, i \in AtomIdx :
            /\ lrn.l[j][i] \in AtomIdx
            /\ lrn.u[j][i] \in AtomIdx
        /\ \A j \in RowIdx :
            RowSum(lrn.m[j]) = RowSum(lrn.pnsA[j]) * BDen(args)

\* C2 witness: one row whose Tz lies above V_max for every atom and one row
\* whose Tz lies below V_min for every atom, projected.
C2_Witness ==
    /\ lastOp = "projection" /\ raised = "none" /\ ValidSupport(args)
    /\ \E j \in RowIdx : \A i \in AtomIdx :
        TzNum(args, lrn.returns[j], lrn.nonterminals[j], i)
            > args.V_max * TzDen(args) + TzDen(args)
    /\ \E j \in RowIdx : \A i \in AtomIdx :
        TzNum(args, lrn.returns[j], lrn.nonterminals[j], i)
            < args.V_min * TzDen(args) - TzDen(args)

\* C3: degenerate atoms.  When b is an integer the source mass is still split
\* over two distinct neighbouring slots, u = l + 1, and what is added to l
\* plus what is added to u is the whole source mass, at interior atoms and at
\* both ends of the support.
C3_DegenerateNonVanishing ==
    (lastOp = "projection" /\ raised = "none" /\ ValidSupport(args)) =>
        \A j \in RowIdx, i \in AtomIdx :
            BIsInteger(j, i) =>
                /\ lrn.l[j][i] # lrn.u[j][i]
                /\ lrn.u[j][i] = lrn.l[j][i] + 1
                /\ lrn.u[j][i] * BDen(args) >= lrn.bNum[j][i]
                /\ lrn.l[j][i] * BDen(args) <= lrn.bNum[j][i]
                /\ MassToLower(lrn.pnsA[j][i], lrn.u[j][i], lrn.bNum[j][i], BDen(args))
                     + MassToUpper(lrn.pnsA[j][i], lrn.l[j][i], lrn.bNum[j][i], BDen(args))
                   = lrn.pnsA[j][i] * BDen(args)
                /\ (lrn.pnsA[j] = PointMass(i, args.num_atoms) =>
                        lrn.m[j][lrn.bNum[j][i] \div BDen(args)] = MassOne)

\* C3 witness: a projection with an integer b at an interior atom, at b = 0
\* and at b = num_atoms - 1, each carrying mass.
C3_Witness ==
    /\ lastOp = "projection" /\ raised = "none" /\ ValidSupport(args)
    /\ \E j \in RowIdx, i \in AtomIdx :
        /\ lrn.bNum[j][i] = 0 /\ lrn.pnsA[j][i] > 0
    /\ \E j \in RowIdx, i \in AtomIdx :
        /\ lrn.bNum[j][i] = (args.num_atoms - 1) * BDen(args) /\ lrn.pnsA[j][i] > 0
    /\ \E j \in RowIdx, i \in AtomIdx :
        /\ BIsInteger(j, i) /\ lrn.pnsA[j][i] > 0
        /\ lrn.bNum[j][i] > 0 /\ lrn.bNum[j][i] < (args.num_atoms - 1) * BDen(args)

\* -------------------------------------------------- life cycle (Spec)

LearnCompleted == lastOp = "learn" /\ raised = "none"

CountOf(seq, x) == Cardinality({k \in DOMAIN seq : seq[k] = x})
FirstOf(seq, x) == CHOOSE k \in DOMAIN seq : seq[k] = x /\ \A k2 \in DOMAIN seq : seq[k2] = x => k <= k2

\* next state of batch element j of the last learn
NextStateOf(j) == Stored[lrn.idxs[j]].next

\* expected values of the actions under the online network, as learn saw it
OnlineQ(j) == QNum(args, NetProbs(lrn.online, lrn.xi, NextStateOf(j), args.num_atoms))

\* the target network's own greedy action on the next state
TargetGreedy(j) ==
    GreedyAction(args, target, EffNoise(targetNoise, targetTraining), NextStateOf(j))

\* C4: Double DQN.  For every batch element the selected action maximises
\* the expected value under the ONLINE network's next-state distribution
\* (first maximum), and the distribution projected is the TARGET network's
\* (freshly resampled noise) at that action.
C4_DoubleDQN ==
    (LearnCompleted /\ ~IsNaN(lrn.online) /\ ~IsNaN(target)) =>
        \A j \in RowIdx :
            /\ \A a \in Actions : OnlineQ(j)[a] <= OnlineQ(j)[lrn.astar[j]]
            /\ \A a \in Actions : a < lrn.astar[j] => OnlineQ(j)[a] < OnlineQ(j)[lrn.astar[j]]
            /\ lrn.pnsA[j] =
                 NetProbs(target, EffNoise(targetNoise, targetTraining),
                          NextStateOf(j), args.num_atoms)[lrn.astar[j]]

\* C4 witness: a completed learn in which the target network's own greedy
\* action differs from the action selected, and the distribution projected
\* is neither the target's at its greedy action nor the online network's.
C4_Witness ==
    /\ LearnCompleted /\ ~IsNaN(lrn.online) /\ ~IsNaN(target) /\ ValidSupport(args)
    /\ \E j \in RowIdx :
        /\ TargetGreedy(j) # lrn.astar[j]
        /\ lrn.pnsA[j] #
             NetProbs(target, EffNoise(targetNoise, targetTraining),
                      NextStateOf(j), args.num_atoms)[TargetGreedy(j)]
        /\ lrn.pnsA[j] #
             NetProbs(lrn.online, lrn.xi, NextStateOf(j), args.num_atoms)[lrn.astar[j]]

\* C5: the target network's parameters change only in an update_target_net
\* step; learn steps the online network's parameters and leaves the target's.
C5_TargetChangesOnlyOnSync ==
    [][(target' # target => lastOp' = "update_target_net")
        /\ (lastOp' = "learn" => target' = target)]_vars

\* C5 witness: a completed learn that moved the online parameters away from
\* the target's.
C5_Witness ==
    /\ LearnCompleted
    /\ online # lrn.online
    /\ target = lrn.online

\* C6: right after construction and right after update_target_net the target
\* parameters equal the online parameters; after any later learn calls the
\* target still equals that snapshot; its parameters stay out of gradient
\* tracking.
C6_TargetIsSnapshot ==
    constructed = "ok" =>
        /\ lastOp \in {"init", "update_target_net"} => target = online
        /\ target = snapshot
        /\ ~targetRequiresGrad

\* C6 witness: after a completed learn the target still holds the snapshot
\* (which is not the fresh initialisation), the online network has moved on.
C6_Witness ==
    /\ LearnCompleted
    /\ target = snapshot
    /\ online # target
    /\ target # FreshOnline

\* the per-sample loss of batch element j, from m and the online network's
\* log-probabilities at the action taken
UnweightedLoss(j) ==
    SumTo([i \in AtomIdx |->
             lrn.m[j][i] * NetNegLog(lrn.online, lrn.xi, Stored[lrn.idxs[j]].state,
                                     args.num_atoms)[Stored[lrn.idxs[j]].action][i]],
          args.num_atoms - 1)

\* C7: a completed learn makes exactly one mem.sample, then one optimiser
\* step, then exactly one mem.update_priorities, which gets the indices of
\* this call's sample and the per-sample losses without the importance
\* weights; the weights enter only the back-propagated mean.
C7_SampleStepUpdate ==
    LearnCompleted =>
        /\ CountOf(calls, "mem.sample") = 1
        /\ CountOf(calls, "optimiser.step") = 1
        /\ CountOf(calls, "mem.update_priorities") = 1
        /\ FirstOf(calls, "mem.sample") < FirstOf(calls, "optimiser.step")
        /\ FirstOf(calls, "optimiser.step") < FirstOf(calls, "mem.update_priorities")
        /\ lrn.prioIdxs = lrn.idxs
        /\ \A j \in RowIdx : lrn.prioVals[j] = UnweightedLoss(j)
        /\ lrn.backward =
             SumTo([j \in RowIdx |-> Stored[lrn.idxs[j]].weight * UnweightedLoss(j)],
                   args.batch_size - 1)

\* C7 witness: a completed learn with a sample whose importance weight is not
\* 1 and whose loss is not 0.
C7_Witness ==
    /\ LearnCompleted /\ ~lrn.nanLoss
    /\ \E j \in RowIdx :
        /\ Stored[lrn.idxs[j]].weight > 1
        /\ lrn.prioVals[j] > 0
        /\ lrn.backward > lrn.prioVals[0] + lrn.prioVals[1]

\* C8: a learn whose mem.sample cannot supply a full batch raises to its
\* caller after that one sample call: no optimiser step, no
\* update_priorities, no target-noise resampling, parameters unchanged.
C8_SampleFailurePropagates ==
    [][(lastOp' = "learn" /\ memSize < args.batch_size) =>
          /\ raised' = "InsufficientSamples"
          /\ calls' = <<"mem.sample">>
          /\ online' = online /\ target' = target
          /\ targetNoise' = targetNoise /\ onlineNoise' = onlineNoise
          /\ lrn'.prioIdxs = << >>]_vars

\* C8 witness: learn raised InsufficientSamples on a memory holding some
\* transitions, fewer than a batch.
C8_Witness ==
    /\ lastOp = "learn" /\ raised = "InsufficientSamples"
    /\ memSize > 0 /\ memSize < args.batch_size

\* C9 (as claimed): construction fails whenever num_atoms < 2 or
\* V_min >= V_max, so no Agent with such a support can act or learn.
C9_InvalidConfigurationRejected ==
    (args.num_atoms < 2 \/ args.V_min >= args.V_max) => constructed # "ok"

\* C10 (as claimed): a learn in which the probabilities or the loss hold a NaN
\* aborts: it does not complete with an optimiser step and a priority update.
C10_NaNAborts ==
    (LearnCompleted /\ ValidSupport(args)) => ~lrn.nanLoss

\* C11: act_e_greedy with epsilon = 0 returns exactly act(state) and draws no
\* random action; with epsilon = 1 it returns a drawn action index in
\* 0 .. action_space.n - 1 and does not call the network.
C11_EpsilonGreedyBounds ==
    lastOp = "act_e_greedy" =>
        /\ result.value \in Actions
        /\ result.epsilon = 0 =>
             /\ result.value = ActResult(result.state).value
             /\ CountOf(calls, "np.random.randint") = 0
             /\ CountOf(calls, "online_net") = 1
        /\ result.epsilon = 1000 =>
             /\ CountOf(calls, "np.random.randint") = 1
             /\ CountOf(calls, "online_net") = 0

\* C11 witness: with epsilon = 1 the last action index was drawn although the
\* greedy action is another one.
C11_Witness ==
    /\ lastOp = "act_e_greedy" /\ result.epsilon = 1000
    /\ result.value = NumActions - 1
    /\ ActResult(result.state).value # result.value

\* C12 (as claimed): while the online network is in EVAL mode no operation,
\* learn included, changes the online network's parameters.
C12_EvalReadOnly ==
    [][~onlineTraining => online' = online]_vars

\* the lower and the upper slot of the first source atom of row j
RowLower(j) == lrn.l[j][0]
RowUpper(j) == lrn.u[j][0]

\* C13: for a terminal transition (nonterminal = 0) every source atom gets the
\* same b = (clamp(return, V_min, V_max) - V_min) / delta_z, whatever
\* discount ** n is, and the row's whole mass lies on the two slots next to
\* it, split by the distance to them, whatever the shape of the distribution.
C13_TerminalCollapse ==
    (lastOp = "projection" /\ raised = "none" /\ ValidSupport(args)) =>
        \A j \in RowIdx : lrn.nonterminals[j] = 0 =>
            /\ \A i \in AtomIdx :
                /\ lrn.bNum[j][i] * RetDen * (args.V_max - args.V_min) =
                     (Clamp(lrn.returns[j], args.V_min * RetDen, args.V_max * RetDen)
                        - args.V_min * RetDen) * (args.num_atoms - 1) * BDen(args)
                /\ lrn.l[j][i] = RowLower(j) /\ lrn.u[j][i] = RowUpper(j)
            /\ \A k \in AtomIdx : k \notin {RowLower(j), RowUpper(j)} => lrn.m[j][k] = 0
            /\ lrn.m[j][RowLower(j)] =
                 RowSum(lrn.pnsA[j]) * (RowUpper(j) * BDen(args) - lrn.bNum[j][0])
            /\ lrn.m[j][RowUpper(j)] =
                 RowSum(lrn.pnsA[j]) * (lrn.bNum[j][0] - RowLower(j) * BDen(args))

\* C13 witness: a terminal row whose distribution has mass on several atoms,
\* with discount ** n below 1 and a fractional b, so both slots get mass.
C13_Witness ==
    /\ lastOp = "projection" /\ raised = "none" /\ ValidSupport(args)
    /\ GammaNum(args) < GammaDen(args)
    /\ \E j \in RowIdx :
        /\ lrn.nonterminals[j] = 0
        /\ lrn.pnsA[j] = EndsHeavy(args.num_atoms)
        /\ lrn.m[j][RowLower(j)] > 0 /\ lrn.m[j][RowUpper(j)] > 0

\* row j of the last projection is the worked example: return 1, non-terminal,
\* target distribution [0.5, 0, 0, 0, 0.5]
IsExampleRow(j) ==
    /\ lastOp = "projection" /\ raised = "none"
    /\ lrn.returns[j] = RetDen /\ lrn.nonterminals[j] = 1
    /\ lrn.pnsA[j] = HalfHalf

\* Tz of the example, before and after the clamp, in hundredths
ExampleTz == [i \in 0 .. 4 |-> 100 + 99 * (i - 2)]
ExampleTzClamped == [i \in 0 .. 4 |-> Min(ExampleTz[i], 200)]
\* the projected row of the example, in hundredths
ExampleM == [k \in 0 .. 4 |-> CASE k = 1 -> 49 [] k = 2 -> 1 [] k = 4 -> 50 [] OTHER -> 0]

\* Tz of the example as the specification's text gives it, in ten-thousandths
StatedTz == [i \in 0 .. 4 |-> CASE i = 0 -> -9800 [] i = 1 -> -99 [] i = 2 -> 9801
                                [] i = 3 -> 19701 [] OTHER -> 29699]
StatedTzClamped == [i \in 0 .. 4 |-> Min(StatedTz[i], 20000)]

\* C14 (amended): in the worked example Tz = 1 + 0.99 * [-2, -1, 0, 1, 2] =
\* [-0.98, 0.01, 1, 1.99, 2.98], clamped to [-0.98, 0.01, 1, 1.99, 2], so
\* b = [1.02, 2.01, 3, 3.99, 4] and the projected row is
\* [0, 0.49, 0.01, 0, 0.5], which sums to 1.
C14_ExampleProjection ==
    \A j \in RowIdx : IsExampleRow(j) =>
        /\ \A i \in AtomIdx :
            /\ TzNum(args, lrn.returns[j], lrn.nonterminals[j], i) * 100
                 = ExampleTz[i] * TzDen(args)
            /\ TzClamped(args, lrn.returns[j], lrn.nonterminals[j], i) * 100
                 = ExampleTzClamped[i] * TzDen(args)
            /\ lrn.bNum[j][i] * 100 = (ExampleTzClamped[i] + 200) * BDen(args)
        /\ \A k \in AtomIdx : lrn.m[j][k] * 100 = ExampleM[k] * 2 * BDen(args)
        /\ RowSum(lrn.m[j]) = 2 * BDen(args)

\* C14 witness: the worked example has been projected.
C14_Witness ==
    \E j \in RowIdx : IsExampleRow(j) /\ lrn.m[j][1] > 0 /\ lrn.m[j][4] > 0

\* C14 (as claimed): in the worked example Tz = [-0.98, -0.0099, 0.9801,
\* 1.9701, 2.9699], clamped to [-0.98, -0.0099, 0.9801, 1.9701, 2], and the
\* projected mass sums to 1.
C14_ExampleAsStated ==
    \A j \in RowIdx : IsExampleRow(j) =>
        /\ \A i \in AtomIdx :
            /\ TzNum(args, lrn.returns[j], lrn.nonterminals[j], i) * 10000
                 = StatedTz[i] * TzDen(args)
            /\ TzClamped(args, lrn.returns[j], lrn.nonterminals[j], i) * 10000
                 = StatedTzClamped[i] * TzDen(args)
        /\ RowSum(lrn.m[j]) = 2 * BDen(args)

\* C15 (as claimed): every completed learn returns a scalar loss value to its
\* caller.
C15_LearnReturnsLoss ==
    LearnCompleted => result.kind = "loss"

\* expected values of the actions on state s under the online network as it
\* stands (its parameters, its noise realisation, its mode)
OnlineQNow(s) ==
    QNum(args, NetProbs(online, EffNoise(onlineNoise, onlineTraining), s, args.num_atoms))

\* C16: act(state) returns an argmax over the actions of the expected value
\* under the online network, changes neither network's parameters nor noise,
\* and a second call on the same state (parameters and noise being the same)
\* returns the same action.
C16_ActDeterministic ==
    [][lastOp' = "act" =>
          /\ agentVars' = agentVars
          /\ result'.value \in Actions
          /\ ~IsNaN(online) =>
                \A a \in Actions : OnlineQNow(result'.state)[a]
                                     <= OnlineQNow(result'.state)[result'.value]
          /\ (lastOp = "act" /\ result.state = result'.state) =>
                result'.value = result.value]_vars

\* C16 witness: act returned an action that is not the first one, the
\* actions' expected values being different.
C16_Witness ==
    /\ lastOp = "act" /\ ~IsNaN(online)
    /\ result.value # 0
    /\ OnlineQNow(result.state)[0] < OnlineQNow(result.state)[result.value]

\* C17: evaluate_q(state) returns the maximum over the actions of the
\* expected value under the online network, which is the expected value of
\* the action act(state) returns on the same parameters and noise, in either
\* mode; the call changes no parameter, no noise and no mode, and takes no
\* epsilon.
C17_EvaluateQ ==
    [][lastOp' = "evaluate_q" =>
          /\ agentVars' = agentVars
          /\ ~IsNaN(online) =>
                /\ result'.kind = "q"
                /\ \A a \in Actions : OnlineQNow(result'.state)[a] <= result'.value
                /\ \E a \in Actions : OnlineQNow(result'.state)[a] = result'.value
                /\ result'.value =
                     OnlineQNow(result'.state)[ActResult(result'.state).value]
          /\ (lastOp = "act" /\ ~IsNaN(online) /\ result.state = result'.state) =>
                result'.value = OnlineQNow(result.state)[result.value]]_vars

\* C17 witness: evaluate_q in EVAL mode returned the value of an action that
\* is strictly better than another one.
C17_Witness ==
    /\ lastOp = "evaluate_q" /\ ~IsNaN(online) /\ ~onlineTraining
    /\ result.kind = "q"
    /\ \E a \in Actions : OnlineQNow(result.state)[a] < result.value

\* C18: transition_reward returns more than movement_reward only on a
\* transition from an empty previous inventory to an inventory whose first
\* object's type is a target; on every other transition it returns exactly
\* movement_reward and leaves pickedup_objects as it was.
C18_RewardOnlyOnPickup ==
    [][lastOp' = "transition_reward" =>
          /\ result'.value > task.movement_reward =>
                /\ task.prev_inventory = << >>
                /\ result'.event # << >>
                /\ \E k \in DOMAIN task.target_objects :
                      task.target_objects[k] = result'.event[1]
          /\ ~(/\ task.prev_inventory = << >>
               /\ result'.event # << >>
               /\ \E k \in DOMAIN task.target_objects :
                     task.target_objects[k] = result'.event[1]) =>
                /\ result'.value = task.movement_reward
                /\ task'.pickedup_objects = task.pickedup_objects
          /\ task'.prev_inventory = result'.event]_vars

\* C18 witness: a second transition holding a target object, the inventory
\* being non-empty already: one pickup counted, movement_reward returned.
C18_Witness ==
    /\ lastOp = "transition_reward"
    /\ result.event # << >> /\ result.event[1] = "Mug"
    /\ \E k \in DOMAIN task.target_objects : task.target_objects[k] = "Mug"
    /\ task.pickedup_objects["Mug"] = 1
    /\ result.value = task.movement_reward
    /\ task.movement_reward < 0

\* the processes the asynchronous branch starts, in order: the test process,
\* then the train process of each rank 0 .. n - 1
ExpectedProcesses(n) ==
    [k \in 1 .. (n + 1) |-> IF k = 1 THEN TestProcess(n) ELSE TrainProcess(k - 2)]

IsPrefix(p, q) == Len(p) <= Len(q) /\ \A k \in 1 .. Len(p) : p[k] = q[k]

\* C19: in synchronous mode main.py starts no process and runs at most one
\* train(), of rank 0, in the main process, with args.num_processes set to 1
\* by then; unless an exception arrived before train() was called, it has
\* done so when the try block is left.  In asynchronous mode it starts the
\* test process, then one train process per rank 0 .. num_processes - 1,
\* joins only once all are started, and has joined every one when the try
\* block ends without an exception.  In both modes, whatever left the try
\* block, the writer is not called before the block is left; afterwards
\* export_scalars_to_json is called unless a KeyboardInterrupt arrives first,
\* and close is called after it exactly when the export returned and no
\* KeyboardInterrupt arrived in between.
C19_Launch ==
    launch.started =>
        /\ launch.synchronous =>
              /\ launch.processes = << >> /\ launch.joined = << >>
              /\ launch.mainCalls \in {<< >>, <<TrainProcess(0)>>}
              /\ launch.mainCalls # << >> => launch.num_processes = 1
              /\ launch.pc = "try" => launch.mainCalls = << >>
              /\ (launch.pc # "try" /\ launch.tryRaised \in {"none", "train"}) =>
                    launch.mainCalls = <<TrainProcess(0)>>
        /\ ~launch.synchronous =>
              /\ launch.mainCalls = << >>
              /\ IsPrefix(launch.processes, ExpectedProcesses(launch.num_processes))
              /\ launch.joined # << >> =>
                    launch.processes = ExpectedProcesses(launch.num_processes)
              /\ (launch.pc \in {"finally", "done"} /\ launch.tryRaised = "none") =>
                    /\ launch.processes = ExpectedProcesses(launch.num_processes)
                    /\ Len(launch.joined) = Len(launch.processes)
        /\ launch.pc = "done" =>
              /\ launch.writerCalls \in {<< >>, <<"export_scalars_to_json">>,
                                         <<"export_scalars_to_json", "close">>}
              /\ launch.writerCalls = << >> <=>
                    launch.finallyInterrupted = "before export"
              /\ launch.writerCalls = <<"export_scalars_to_json", "close">> <=>
                    /\ launch.finallyInterrupted = "none"
                    /\ launch.writerRaised # "export_scalars_to_json"
        /\ launch.pc # "done" => launch.writerCalls = << >>

\* C19 (as claimed): in synchronous mode args.num_processes is 1 and exactly
\* one train() of rank 0 has run in the main process once the try block is
\* left, and no process is started; in asynchronous mode the test process and
\* one train process per rank are started and all of them joined once the
\* try block is left; in both modes the writer is exported and closed
\* afterwards.
C19_LaunchAsStated ==
    launch.started =>
        /\ launch.synchronous =>
              /\ launch.processes = << >> /\ launch.joined = << >>
              /\ launch.pc \in {"finally", "done"} =>
                    /\ launch.num_processes = 1
                    /\ launch.mainCalls = <<TrainProcess(0)>>
        /\ ~launch.synchronous =>
              /\ launch.mainCalls = << >>
              /\ launch.pc \in {"finally", "done"} =>
                    /\ launch.processes = ExpectedProcesses(launch.num_processes)
                    /\ Len(launch.joined) = Len(launch.processes)
        /\ launch.pc = "done" =>
              launch.writerCalls = <<"export_scalars_to_json", "close">>

\* C19 witness: the synchronous train() raised, and the writer has been
\* exported and closed.
C19_Witness ==
    /\ launch.started /\ launch.synchronous
    /\ launch.tryRaised = "train" /\ launch.raisedOut = "train"
    /\ launch.writerRaised = "none" /\ launch.finallyInterrupted = "none"
    /\ launch.pc = "done"
    /\ launch.writerCalls = <<"export_scalars_to_json", "close">>

\* what source atom i of row j adds to slot k
Contribution(j, i, k) ==
    (IF lrn.l[j][i] = k
     THEN MassToLower(lrn.pnsA[j][i], lrn.u[j][i], lrn.bNum[j][i], BDen(args)) ELSE 0)
    + (IF lrn.u[j][i] = k
       THEN MassToUpper(lrn.pnsA[j][i], lrn.l[j][i], lrn.bNum[j][i], BDen(args)) ELSE 0)

\* C20: after the adjustment every source atom has u - l = 1 and l <= b <= u,
\* so the weights (u - b) and (b - l) lie in [0, 1] and sum to 1, and every
\* slot of m holds the sum of what all source atoms added to it.
C20_WeightsAndAccumulation ==
    (lastOp = "projection" /\ raised = "none" /\ ValidSupport(args)) =>
        /\ \A j \in RowIdx, i \in AtomIdx :
            /\ lrn.u[j][i] - lrn.l[j][i] = 1
            /\ lrn.l[j][i] * BDen(args) <= lrn.bNum[j][i]
            /\ lrn.bNum[j][i] <= lrn.u[j][i] * BDen(args)
            /\ lrn.u[j][i] * BDen(args) - lrn.bNum[j][i] \in 0 .. BDen(args)
            /\ lrn.bNum[j][i] - lrn.l[j][i] * BDen(args) \in 0 .. BDen(args)
            /\ (lrn.u[j][i] * BDen(args) - lrn.bNum[j][i])
                 + (lrn.bNum[j][i] - lrn.l[j][i] * BDen(args)) = BDen(args)
        /\ \A j \in RowIdx, k \in AtomIdx :
            lrn.m[j][k] =
                SumTo([i \in AtomIdx |-> Contribution(j, i, k)], args.num_atoms - 1)

\* C20 witness: two source atoms of a row add mass to the same slot.
C20_Witness ==
    /\ lastOp = "projection" /\ raised = "none" /\ ValidSupport(args)
    /\ \E j \in RowIdx, k \in AtomIdx :
       \E i1 \in AtomIdx, i2 \in AtomIdx :
            /\ i1 # i2
            /\ Contribution(j, i1, k) > 0 /\ Contribution(j, i2, k) > 0
            /\ lrn.m[j][k] >= Contribution(j, i1, k) + Contribution(j, i2, k)

\* C21: create_task returns a task only for the four known task names;
\* 'PickUp' with a target_object outside config['pickup_objects'] raises
\* InvalidTaskParams and creates no task; an unknown task_name raises
\* NotImplementedError; 'PickUp' with a pickupable target_object returns a
\* PickupTask with pickedup_objects and prev_inventory empty and step_num 0.
C21_CreateTask ==
    [][lastOp' = "create_task" =>
          /\ result'.kind = "task" =>
                raised' = "none" /\ result'.config.task_name \in KnownTaskNames
          /\ raised' # "none" => result'.kind = "none" /\ task' = task
          /\ (/\ result'.config.task_name = "PickUp"
              /\ result'.config.target_object # NoKey
              /\ result'.config.target_object \notin result'.config.pickup_objects) =>
                raised' = "InvalidTaskParams"
          /\ result'.config.task_name \notin KnownTaskNames =>
                raised' = "NotImplementedError"
          /\ (/\ result'.config.task_name = "PickUp"
              /\ result'.config.target_object \in result'.config.pickup_objects) =>
                /\ raised' = "none"
                /\ result'.kind = "task" /\ result'.class = "PickupTask"
                /\ task'.created
                /\ task'.pickedup_objects = EmptyCounter
                /\ task'.prev_inventory = << >>
                /\ task'.step_num = 0]_vars

\* C21 witness: a PickupTask in its reset state was returned for the
\* pickupable target object Apple.
C21_Witness ==
    /\ lastOp = "create_task" /\ raised = "none"
    /\ result.class = "PickupTask"
    /\ result.config.target_object = "Apple"
    /\ result.config.pickup_objects = {"Apple"}
    /\ task.created /\ task.step_num = 0

\* C22 (as claimed): with task 0, over any sequence of step and reset calls,
\* a step returns reward 1 exactly when it added a mug id to
\* mugs_ids_collected_and_placed, and reward 0 otherwise.
C22_RewardIffMugAdded ==
    [][(lastOp' = "env.step" /\ raised' = "none" /\ thorEnv.task = 0) =>
          /\ result'.reward \in {0, 1}
          /\ result'.reward = 1 <=>
                (result'.picked # NoMug /\ result'.picked \notin thorEnv.mugs)]_vars

====
